---- MODULE Spec2Model ----
(***************************************************************************)
(* The maehem base component (src/index.js): field initialisation, the     *)
(* property setters, the view cache and the convention-named event wiring, *)
(* as a state machine over a small DOM.                                    *)
(*                                                                         *)
(* Every `await` of the source is a suspension point: an activation of an  *)
(* async method (connectedCallback, hotReplacedCallback, a field setter)   *)
(* is a frame in comp[i].procs, and one action resumes one frame and runs  *)
(* it to its next `await`.  Synchronous re-entry (setAttribute calling     *)
(* attributeChangedCallback calling the setter) runs inside the action     *)
(* that causes it.                                                         *)
(***************************************************************************)
EXTENDS Naturals, Sequences, FiniteSets

VARIABLES
  cls,        \* the component class: fields(), noView, prototype method names
  observed,   \* what customElements.define read from observedAttributes
  comp,       \* the instances: DOM attributes, _attrs, _state, shadow root, frames
  views,      \* the module-level `views` cache, for this class's key
  listeners,  \* the DOM's registered event listeners
  fetches,    \* how many fetches of the class's HTML have been issued
  ops         \* how many stimuli the environment has used

vars == <<cls, observed, comp, views, listeners, fetches, ops>>

\* ---------------------------------------------------------------- bounds

\* Environment stimuli after the first connection (assignments, attribute
\* writes, disconnections, hot replacements) per run.
MaxOps == 2
\* The longest fields() of the exhaustive declaration check.
MaxFields == 3

\* The instances of the class on the page.
Instances == {1, 2}

\* ------------------------------------------------------ JavaScript values

Undefined == [t |-> "undefined", v |-> ""]
Null == [t |-> "null", v |-> ""]
Str(s) == [t |-> "string", v |-> s]
\* The number whose decimal numeral is s.
Num(s) == [t |-> "number", v |-> s]

\* String(x), as setAttribute and template literals apply it.
ToString(x) ==
  CASE x.t = "string" -> x
    [] x.t = "number" -> Str(x.v)
    [] x.t = "undefined" -> Str("undefined")
    [] x.t = "null" -> Str("null")

\* ToBoolean(x), as `||`, `!` and `? :` apply it.
Truthy(x) ==
  ~(x.t \in {"undefined", "null"} \/ x = Str("") \/ x = Num("0"))

\* The numeral of Number(s) for the strings of the model ("" is 0; a string
\* that is no numeral is NaN, which equals no number).
ToNumber(s) == IF s.v = "" THEN "0" ELSE s.v

\* a == b
LooseEq(a, b) ==
  IF a.t = b.t THEN a = b
  ELSE IF {a.t, b.t} = {"undefined", "null"} THEN TRUE
  ELSE IF a.t = "number" /\ b.t = "string" THEN a.v = ToNumber(b)
  ELSE IF a.t = "string" /\ b.t = "number" THEN ToNumber(a) = b.v
  ELSE FALSE

\* ------------------------------------------------------------ the class

Names == {"a", "s"}

\* A default (a field's or the constructor's): a plain value, or a function
\* whose awaited result is v.
Plain(v) == [fn |-> FALSE, v |-> v]
Fn(v) == [fn |-> TRUE, v |-> v]

\* kind "" is a field declared without a kind.
Field(name, kind, default, required) ==
  [name |-> name, kind |-> kind, default |-> default, required |-> required]

\* Prototype method names, split at "_".
Render(name) == <<"render", name>>
Updated(name) == <<name, "updated">>

\* The HTML documents the server may answer with; "" is an empty file.
HtmlButton == "<button id=btn></button><i class=btn></i>"
HtmlItems == "<i class=btn></i><i class=btn></i>"
Htmls == {"", HtmlButton, HtmlItems}

\* ------------------------------------------------------------- the DOM

\* The elements innerHTML creates from a document.
ParseHtml(html) ==
  CASE html = HtmlButton -> {[el |-> "button", id |-> "btn", class |-> ""],
                             [el |-> "i0", id |-> "", class |-> "btn"]}
    [] html = HtmlItems -> {[el |-> "i1", id |-> "", class |-> "btn"],
                            [el |-> "i2", id |-> "", class |-> "btn"]}
    [] OTHER -> {}

\* What render_<name> builds in the shadow root.
RenderedElems(name) == {[el |-> "r_" \o name, id |-> "", class |-> "item"]}

\* The light document around the components.
DocElems == {[el |-> "out", id |-> "out", class |-> ""]}

ShadowElems(c) ==
  ParseHtml(c.shadow.html) \cup UNION {RenderedElems(n) : n \in c.shadow.rendered}

Window == [kind |-> "window", inst |-> 0, gen |-> 0, el |-> ""]
Document == [kind |-> "document", inst |-> 0, gen |-> 0, el |-> ""]
This(i) == [kind |-> "this", inst |-> i, gen |-> 0, el |-> ""]
DocTarget(e) == [kind |-> "doc", inst |-> 0, gen |-> 0, el |-> e.el]
\* An element of instance i's shadow root; every innerHTML makes new ones.
ShadowTarget(i, c, e) ==
  [kind |-> "shadow", inst |-> i, gen |-> c.shadow.gen, el |-> e.el]

\* A lookup that takes the elements with the id and those with the class.
QueryIdAndClass(elems, x) == {e \in elems : e.id = x \/ e.class = x}

\* querySelectorAll(`#${x}`), and `.${x}` when that is empty.
QueryIdOrClass(elems, x) ==
  LET byId == {e \in elems : e.id = x}
  IN IF byId = {} THEN {e \in elems : e.class = x} ELSE byId

\* --------------------------------------- /(?:global_)?(.*)_(.*)_event/

RECURSIVE Join(_)
Join(ts) ==
  IF Len(ts) = 0 THEN ""
  ELSE IF Len(ts) = 1 THEN ts[1]
  ELSE ts[1] \o "_" \o Join(Tail(ts))

\* The position of the last token "event" (0: none): both groups are greedy,
\* so the match ends at the last "_event".
LastEvent(prop) ==
  LET S == {k \in 1 .. Len(prop) : prop[k] = "event"}
  IN IF S = {} THEN 0 ELSE CHOOSE k \in S : \A j \in S : j <= k

\* prop.match(...): match[1] and match[2].  The optional prefix is taken
\* when the rest still matches, else it is left to the first group.
Match(prop) ==
  LET k == LastEvent(prop)
  IN IF Len(prop) >= 1 /\ prop[1] = "global" /\ k >= 4
       THEN [ok |-> TRUE, idOrClass |-> Join(SubSeq(prop, 2, k - 2)), event |-> prop[k - 1]]
     ELSE IF k >= 3
       THEN [ok |-> TRUE, idOrClass |-> Join(SubSeq(prop, 1, k - 2)), event |-> prop[k - 1]]
     ELSE [ok |-> FALSE, idOrClass |-> "", event |-> ""]

\* prop.startsWith('global_')
IsGlobal(prop) == Len(prop) >= 2 /\ prop[1] = "global"

\* this[prop]: the prototype's function until _bindEvents has run, then the
\* function the latest _bindEvents bound.
Handler(i, c, prop) ==
  IF c.bound = 0 THEN [prop |-> prop, inst |-> 0, gen |-> 0]
  ELSE [prop |-> prop, inst |-> i, gen |-> c.bound]

\* The elements _wireEvents finds for a matching prop.
Targets(i, c, prop) ==
  LET idOrClass == Match(prop).idOrClass
  IN IF idOrClass = "window" THEN {Window}
     ELSE IF idOrClass = "this" THEN {This(i)}
     ELSE IF idOrClass = "document" THEN {Document}
     ELSE IF IsGlobal(prop)
       THEN {DocTarget(e) : e \in QueryIdOrClass(DocElems, idOrClass)}
     ELSE {ShadowTarget(i, c, e) : e \in QueryIdOrClass(ShadowElems(c), idOrClass)}

Listener(target, event, fn) == [target |-> target, event |-> event, fn |-> fn]

RECURSIVE WireProps(_, _, _, _, _)
\* The loop of _wireEvents over the prototype's own property names.
WireProps(ls, i, c, props, detach) ==
  IF props = <<>> THEN ls
  ELSE LET prop == Head(props)
           m == Match(prop)
           on == {Listener(t, m.event, Handler(i, c, prop)) : t \in Targets(i, c, prop)}
       IN IF ~m.ok THEN WireProps(ls, i, c, Tail(props), detach)
          ELSE WireProps(IF detach THEN ls \ on ELSE (ls \ on) \cup on,
                         i, c, Tail(props), detach)

\* _bindEvents: this[prop] = this[prop].bind(this) for the matching props,
\* a new function each time.
_bindEvents(c) ==
  IF \E k \in 1 .. Len(cls.methods) : Match(cls.methods[k]).ok
    THEN [c EXCEPT !.bound = @ + 1]
  ELSE c

\* -------------------------------------------------------- an instance

Keys == Names \cup {"_" \o n : n \in Names}

\* new Component(defaults, onConnected), with the attributes the document
\* gave the element.
NewComponent(defaults, cb, dom) ==
  [defaults |-> defaults, cb |-> cb, dom |-> dom,
   _attrs |-> [k \in Keys |-> Undefined], _state |-> [k \in Keys |-> Undefined],
   set_ |-> {}, props |-> {}, el |-> FALSE,
   shadow |-> [gen |-> 0, html |-> "", rendered |-> {}],
   bound |-> 0, procs |-> <<>>, trace |-> [f \in {0} |-> <<>>], nf |-> 0,
   inDoc |-> FALSE, errors |-> {}]

\* The world an operation reads and writes.
World == [comp |-> comp, views |-> views, listeners |-> listeners, fetches |-> fetches]

NewFrame(f, kind) ==
  [f |-> f, kind |-> kind, pc |-> "start", k |-> 0, name |-> "",
   val |-> Undefined, old |-> Undefined]

\* What activation f of instance i did so far, in order: trace[f].  Activation
\* 0 is the page's own synchronous calls.
Log(w, i, f, e, name, v, o) ==
  LET t == w.comp[i].trace
      entry == [e |-> e, name |-> name, v |-> v, o |-> o]
  IN [w EXCEPT !.comp[i].trace =
        [g \in DOMAIN t \cup {f} |->
           IF g = f THEN (IF f \in DOMAIN t THEN Append(t[f], entry) ELSE <<entry>>)
           ELSE t[g]]]

\* The frame waits at fr.pc.
Suspend(w, i, fr) ==
  LET ps == w.comp[i].procs
  IN IF \E n \in 1 .. Len(ps) : ps[n].f = fr.f
       THEN [w EXCEPT !.comp[i].procs = [n \in 1 .. Len(ps) |-> IF ps[n].f = fr.f THEN fr ELSE ps[n]]]
     ELSE [w EXCEPT !.comp[i].procs = Append(ps, fr)]

\* The frame's promise settles.
Finish(w, i, fr, how) ==
  LET w1 == Log(w, i, fr.f, how, fr.name, Undefined, Undefined)
  IN [w1 EXCEPT !.comp[i].procs = SelectSeq(@, LAMBDA p : p.f # fr.f)]

\* An exception leaves the async method: its promise rejects.
Throw(w, i, fr, what) ==
  Finish([w EXCEPT !.comp[i].errors = @ \cup {what}], i, fr, what)

FieldNamed(name) ==
  cls.fields[CHOOSE k \in 1 .. Len(cls.fields) : cls.fields[k].name = name]

\* field.kind && field.kind === fieldKind.attr
IsAttr(field) == field.kind # "" /\ field.kind = "attr"

HasMethod(prop) == \E k \in 1 .. Len(cls.methods) : cls.methods[k] = prop

\* observedAttributes reporting every field that is not declared as state.
observedAttributesNotState(fs) ==
  LET attrs == SelectSeq(fs, LAMBDA v : v.kind # "state")
  IN [k \in 1 .. Len(attrs) |-> attrs[k].name]

\* static get observedAttributes
observedAttributes(fs) ==
  LET attrs == SelectSeq(fs, LAMBDA v : v.kind # "" /\ v.kind = "attr")
  IN [k \in 1 .. Len(attrs) |-> attrs[k].name]

\* _wireEvents(detach)
_wireEvents(w, i, detach) ==
  [w EXCEPT !.listeners = WireProps(w.listeners, i, w.comp[i], cls.methods, detach)]

\* _renderField(name), up to its await: render_<name> is called if defined.
_renderField(w, i, f, name) ==
  IF HasMethod(Render(name))
    THEN Log(w, i, f, "render", name, Undefined, Undefined)
  ELSE w

\* render_<name> has returned: what it built is in the shadow root.
Rendered(w, i, names) ==
  [w EXCEPT !.comp[i].shadow.rendered = @ \cup {n \in names : HasMethod(Render(n))}]

\* ------------------------------------------------- rendering the view

RECURSIVE RenderCalls(_, _, _, _)
\* _renderFields, up to its await: this.fields().map(...) calls
\* _renderField for every field in turn.
RenderCalls(w, i, f, k) ==
  IF k > Len(cls.fields) THEN w
  ELSE RenderCalls(_renderField(w, i, f, cls.fields[k].name), i, f, k + 1)

\* _renderView from `this.el.innerHTML = ...` to `await this._renderFields()`.
\* The old elements of the shadow root go, and their listeners with them.
InjectView(w, i, fr, view) ==
  LET w1 == [w EXCEPT !.comp[i].shadow =
                        [gen |-> @.gen + 1, html |-> ToString(view).v, rendered |-> {}],
                      !.listeners = {l \in @ : ~(l.target.kind = "shadow" /\ l.target.inst = i)}]
      w2 == Log(w1, i, fr.f, "innerHTML", "", view, Undefined)
  IN Suspend(RenderCalls(w2, i, fr.f, 1), i, [fr EXCEPT !.pc = "render"])

\* _getView, up to its first await: a fetch when the cache has nothing
\* truthy for the class, else the cached text.
_getView(w, i, fr) ==
  LET w1 == Log(w, i, fr.f, "getView", "", w.views, Undefined)
  IN IF ~Truthy(w.views)
       THEN Suspend([Log(w1, i, fr.f, "fetch", "", w.fetches + 1, Undefined)
                       EXCEPT !.fetches = @ + 1],
                    i, [fr EXCEPT !.pc = "fetch"])
     ELSE Suspend(w1, i, [fr EXCEPT !.pc = "view", !.val = w.views])

\* A catch that logs and throws the error on.
GetViewCatchRethrow(w, i, fr) ==
  Throw(Log(w, i, fr.f, "console.error", "", w.fetches, Undefined), i, fr, "rethrown")

\* The catch of _getView: console.error, and the method returns undefined.
GetViewCatch(w, i, fr) ==
  Suspend(Log(w, i, fr.f, "console.error", "", w.fetches, Undefined),
          i, [fr EXCEPT !.pc = "view", !.val = Undefined])

\* views[...] = await resp.text(); return views[...]
GetViewStore(w, i, fr, html) ==
  LET w1 == [w EXCEPT !.views = Str(html)]
  IN Suspend(Log(w1, i, fr.f, "fetched", "", Str(html), Undefined),
             i, [fr EXCEPT !.pc = "view", !.val = w1.views])

\* _renderView downloading the view whatever noView says.
RenderViewIgnoringNoView(w, i, fr) == _getView(w, i, fr)

\* _renderView, up to its first await.
_renderView(w, i, fr) ==
  IF cls.noView THEN InjectView(w, i, fr, Str(""))
  ELSE _getView(w, i, fr)

\* _renderView binding and wiring before the render functions have returned.
RenderViewRestWireFirst(w, i, fr) ==
  LET w2 == [w EXCEPT !.comp[i] = _bindEvents(@)]
      w3 == Log(w2, i, fr.f, "bind", "", Undefined, Undefined)
      w4 == _wireEvents(w3, i, FALSE)
      w5 == Log(w4, i, fr.f, "wire", "", Undefined, Undefined)
      w6 == Log(w5, i, fr.f, "rendered", "", Undefined, Undefined)
      w7 == Rendered(w6, i, {cls.fields[k].name : k \in 1 .. Len(cls.fields)})
  IN Suspend(w7, i, [fr EXCEPT !.pc = "initialized"])

\* _renderView after `await this._renderFields()`.
RenderViewRest(w, i, fr) ==
  LET w0 == Log(w, i, fr.f, "rendered", "", Undefined, Undefined)
      w1 == Rendered(w0, i, {cls.fields[k].name : k \in 1 .. Len(cls.fields)})
      w2 == [w1 EXCEPT !.comp[i] = _bindEvents(@)]
      w3 == Log(w2, i, fr.f, "bind", "", Undefined, Undefined)
      w4 == _wireEvents(w3, i, FALSE)
      w5 == Log(w4, i, fr.f, "wire", "", Undefined, Undefined)
  IN Suspend(w5, i, [fr EXCEPT !.pc = "initialized"])

\* ------------------------------------------------ initialising fields

\* _getDefault(def), up to its await: def(this) is called when def is a
\* function.
_getDefault(w, i, fr, def) ==
  IF def.fn THEN Log(w, i, fr.f, "default", fr.name, Undefined, Undefined) ELSE w

PutObj(c, isAttr, key, value) ==
  IF isAttr THEN [c EXCEPT !._attrs[key] = value] ELSE [c EXCEPT !._state[key] = value]

Objs(c, isAttr) == IF isAttr THEN c._attrs ELSE c._state

\* InitFieldRest without the `field.required && ... === undefined` check.
InitFieldRestNoRequired(w, i, fr, value) ==
  LET field == cls.fields[fr.k]
      name == field.name
      isAttr == IsAttr(field)
      w1 == [w EXCEPT !.comp[i] = PutObj(@, isAttr, "_" \o name, value)]
      w2 == [w1 EXCEPT !.comp[i].set_ = @ \cup {name}]
      w3 == [w2 EXCEPT !.comp[i].props = @ \cup {name}]
      inited(x) == Suspend(Log(x, i, fr.f, "inited", name, value, Undefined),
                           i, [fr EXCEPT !.pc = "inited"])
  IN IF ~Truthy(Objs(w2.comp[i], isAttr)[name])
       THEN IF name \in w2.comp[i].props
              THEN Throw(w2, i, fr, "redefine")
            ELSE inited(w3)
     ELSE inited(w2)

\* _initField from the assignment of objs['_' + name] to its end.
InitFieldRest(w, i, fr, value) ==
  LET field == cls.fields[fr.k]
      name == field.name
      isAttr == IsAttr(field)
      w1 == [w EXCEPT !.comp[i] = PutObj(@, isAttr, "_" \o name, value)]
      w2 == [w1 EXCEPT !.comp[i].set_ = @ \cup {name}]
      w3 == [w2 EXCEPT !.comp[i].props = @ \cup {name}]
      inited(x) == Suspend(Log(x, i, fr.f, "inited", name, value, Undefined),
                           i, [fr EXCEPT !.pc = "inited"])
  IN IF field.required /\ Objs(w1.comp[i], isAttr)["_" \o name] = Undefined
       THEN Throw(w1, i, fr, "required")
     ELSE IF ~Truthy(Objs(w2.comp[i], isAttr)[name])
       THEN IF name \in w2.comp[i].props
              THEN Throw(w2, i, fr, "redefine")
            ELSE inited(w3)
     ELSE inited(w2)

\* _initField(field), up to its first await.  With a truthy attribute there
\* is none, and the method runs to its end.
_initField(w, i, fr0, k) ==
  LET field == cls.fields[k]
      name == field.name
      c == w.comp[i]
      fr == [fr0 EXCEPT !.k = k, !.name = name]
      w1 == Log(w, i, fr.f, "initField", name,
                IF IsAttr(field) THEN c.dom[name] ELSE Undefined, Undefined)
      await(def) == Suspend(_getDefault(w1, i, fr, def), i,
                            [fr EXCEPT !.pc = "default", !.val = def.v])
  IN IF c.defaults[name] # Plain(Undefined) THEN await(c.defaults[name])
     ELSE IF IsAttr(field)
       THEN IF Truthy(c.dom[name]) THEN InitFieldRest(w1, i, fr, c.dom[name])
            ELSE await(field.default)
     ELSE await(field.default)

\* The loop of _initialize from field k on, then _renderView.
InitLoop(w, i, fr, k) ==
  IF k > Len(cls.fields) THEN _renderView(w, i, [fr EXCEPT !.name = ""])
  ELSE _initField(w, i, fr, k)

\* _initialize, up to its first await.  The activation's trace opens with the
\* callback that called it.
_initialize(w, i, fr) ==
  LET w1 == Log(w, i, fr.f,
                IF fr.kind = "hot" THEN "hotReplacedCallback" ELSE "connectedCallback",
                "", Undefined, Undefined)
  IN InitLoop([w1 EXCEPT !.comp[i].el = TRUE], i, fr, 1)

\* InitializeRest calling this._onConnected(this) without awaiting
\* this.onConnected().
InitializeRestNoAwait(w, i, fr) ==
  LET w1 == Log(w, i, fr.f, "onConnected", "", Undefined, Undefined)
  IN IF fr.kind = "hot" THEN Finish(w, i, fr, "resolved")
     ELSE IF w.comp[i].cb
       THEN Suspend(Log(w1, i, fr.f, "_onConnected", "", Undefined, Undefined),
                    i, [fr EXCEPT !.pc = "cb"])
     ELSE Suspend(w1, i, [fr EXCEPT !.pc = "hook"])

\* connectedCallback after `await this._initialize()`: the onConnected hook
\* is called.  hotReplacedCallback ends there.
InitializeRest(w, i, fr) ==
  IF fr.kind = "hot" THEN Finish(w, i, fr, "resolved")
  ELSE Suspend(Log(w, i, fr.f, "onConnected", "", Undefined, Undefined),
               i, [fr EXCEPT !.pc = "hook"])

\* connectedCallback after `await this.onConnected()`.
HookRest(w, i, fr) ==
  LET w1 == Log(w, i, fr.f, "onConnected.returned", "", Undefined, Undefined)
  IN IF w1.comp[i].cb
       THEN Suspend(Log(w1, i, fr.f, "_onConnected", "", Undefined, Undefined),
                    i, [fr EXCEPT !.pc = "cb"])
     ELSE Finish(w1, i, fr, "resolved")

\* ------------------------------------------------------ the setters

\* this.$dispatch(event, {detail})
dispatch(w, i, f, event, newValue, oldValue) ==
  Log(w, i, f, "dispatch", event, newValue, oldValue)

RECURSIVE set_(_, _, _, _)
RECURSIVE setAttribute(_, _, _, _, _)
RECURSIVE attributeChangedCallback(_, _, _, _, _)
RECURSIVE _setField(_, _, _, _)

\* this['set_' + name](newValue), up to its first await.
set_(w, i, name, newValue) ==
  LET c == w.comp[i]
      isAttr == IsAttr(FieldNamed(name))
      oldValue == Objs(c, isAttr)[name]
      f == c.nf + 1
      fr == [NewFrame(f, "set") EXCEPT !.pc = "render", !.name = name,
                                       !.val = newValue, !.old = oldValue]
      w1 == [w EXCEPT !.comp[i] = [PutObj(@, isAttr, "_" \o name, newValue) EXCEPT !.nf = f]]
      w2 == Suspend(Log(w1, i, f, "store", name, newValue, oldValue), i, fr)
      w3 == IF isAttr THEN setAttribute(w2, i, f, name, newValue) ELSE w2
  IN IF newValue = oldValue THEN w
     ELSE _renderField(w3, i, f, name)

\* Element.setAttribute(name, value): the value is stored as a string, and
\* the custom element reaction runs before the call returns.
setAttribute(w, i, f, name, value) ==
  LET old == w.comp[i].dom[name]
      new == ToString(value)
      w1 == Log([w EXCEPT !.comp[i].dom[name] = new], i, f, "setAttribute", name, new, old)
  IN IF \E k \in 1 .. Len(observed) : observed[k] = name
       THEN attributeChangedCallback(w1, i, name, old, new)
     ELSE w1

\* attributeChangedCallback(name, oldValue, newValue)
attributeChangedCallback(w, i, name, oldValue, newValue) ==
  IF LooseEq(oldValue, newValue) THEN w
  ELSE IF ~LooseEq(w.comp[i]._attrs[name], newValue)
    THEN _setField(w, i, name, newValue)
  ELSE w

\* _setField(name, value)
_setField(w, i, name, value) ==
  IF name \in w.comp[i].set_ THEN set_(w, i, name, value) ELSE w

\* The setter from `this._wireEvents()` to its end, or to the await of
\* <name>_updated.
SetDispatch(w, i, fr) ==
  LET w1 == dispatch(w, i, fr.f, fr.name \o "_change", fr.val, fr.old)
      w2 == dispatch(w1, i, fr.f, "change", fr.val, fr.old)
  IN Finish(w2, i, fr, "resolved")

SetRest(w, i, fr) ==
  LET w1 == Rendered(Log(w, i, fr.f, "rendered", fr.name, Undefined, Undefined), i, {fr.name})
      w2 == Log(_wireEvents(w1, i, FALSE), i, fr.f, "wire", fr.name, Undefined, Undefined)
  IN IF HasMethod(Updated(fr.name))
       THEN Suspend(Log(w2, i, fr.f, "updated", fr.name, fr.val, fr.old),
                    i, [fr EXCEPT !.pc = "updated"])
     ELSE SetDispatch(w2, i, fr)

\* ------------------------------------------------------------ classes

WindowResize == <<"window", "resize", "event">>
BtnClick == <<"btn", "click", "event">>
ItemClick == <<"item", "click", "event">>
GlobalOutClick == <<"global", "out", "click", "event">>

\* The component classes of the model: fields(), noView and the own
\* property names of the prototype.
Classes ==
  { [fields |-> <<Field("a", "attr", Plain(Str("d")), FALSE),
                  Field("s", "state", Fn(Num("1")), FALSE)>>,
     noView |-> FALSE,
     methods |-> <<Render("a"), Updated("a"), WindowResize, BtnClick, <<"helper">>>>],
    [fields |-> <<Field("s", "", Plain(Undefined), FALSE),
                  Field("a", "attr", Plain(Undefined), TRUE)>>,
     noView |-> FALSE,
     methods |-> <<WindowResize>>],
    [fields |-> <<Field("s", "state", Plain(Str("x")), FALSE)>>,
     noView |-> TRUE,
     methods |-> <<Render("s"), ItemClick, GlobalOutClick>>],
    [fields |-> <<>>,
     noView |-> TRUE,
     methods |-> <<WindowResize, <<"this", "change", "event">>>>] }

NoDefaults == [n \in Names |-> Plain(Undefined)]
NoAttributes == [n \in Names |-> Null]

\* How the page creates an element: new Component(defaults, onConnected)
\* and the attributes of its tag.
Creations ==
  { [defaults |-> NoDefaults, cb |-> FALSE, dom |-> NoAttributes],
    [defaults |-> NoDefaults, cb |-> TRUE, dom |-> NoAttributes],
    [defaults |-> [NoDefaults EXCEPT !["a"] = Plain(Str("c"))], cb |-> TRUE, dom |-> NoAttributes],
    [defaults |-> NoDefaults, cb |-> TRUE, dom |-> [NoAttributes EXCEPT !["a"] = Str("x")]],
    [defaults |-> NoDefaults, cb |-> TRUE, dom |-> [NoAttributes EXCEPT !["a"] = Str("")]],
    [defaults |-> [NoDefaults EXCEPT !["a"] = Plain(Str("c"))], cb |-> TRUE,
     dom |-> [NoAttributes EXCEPT !["a"] = Str("x")]] }

\* The creations that differ for class c: defaults and attributes of the
\* fields it declares.
CreationsOf(c) ==
  LET declared == {c.fields[k].name : k \in 1 .. Len(c.fields)}
  IN {x \in Creations :
        \A n \in Names \ declared : x.defaults[n] = Plain(Undefined) /\ x.dom[n] = Null}

\* What the page assigns to a field's property.
AssignValues == {Undefined, Num("1"), Str("x")}

\* What the page passes to setAttribute.
AttributeValues == {Str("x"), Str("1"), Str("c")}

\* -------------------------------------------------------------- actions

Apply(w) ==
  /\ comp' = w.comp
  /\ views' = w.views
  /\ listeners' = w.listeners
  /\ fetches' = w.fetches

Waiting(i, pc) == {n \in 1 .. Len(comp[i].procs) : comp[i].procs[n].pc = pc}

\* The element enters the document: connectedCallback, up to its first await.
Connect(i) ==
  /\ ~comp[i].inDoc
  /\ comp[i].nf = 0 \/ ops < MaxOps
  /\ ops' = IF comp[i].nf = 0 THEN ops ELSE ops + 1
  /\ LET w == [World EXCEPT !.comp[i].nf = @ + 1, !.comp[i].inDoc = TRUE]
     IN Apply(_initialize(w, i, NewFrame(w.comp[i].nf, "connect")))
  /\ UNCHANGED <<cls, observed>>

\* The element leaves the document: disconnectedCallback.
Disconnect(i) ==
  /\ comp[i].inDoc
  /\ ops < MaxOps
  /\ ops' = ops + 1
  /\ LET w == _wireEvents([World EXCEPT !.comp[i].inDoc = FALSE], i, TRUE)
     IN Apply(Log(w, i, 0, "onDisconnected", "", Undefined, Undefined))
  /\ UNCHANGED <<cls, observed>>

\* The dev server replaces the module: hotReplacedCallback, up to its first
\* await.
HotReplace(i) ==
  /\ comp[i].inDoc
  /\ ops < MaxOps
  /\ ops' = ops + 1
  /\ LET w == [World EXCEPT !.comp[i].nf = @ + 1]
     IN Apply(_initialize(w, i, NewFrame(w.comp[i].nf, "hot")))
  /\ UNCHANGED <<cls, observed>>

\* The page assigns component[name] = v: the accessor _initField defined
\* calls the setter.
Assign(i, name, v) ==
  /\ name \in comp[i].props
  /\ ops < MaxOps
  /\ ops' = ops + 1
  /\ Apply(set_(World, i, name, v))
  /\ UNCHANGED <<cls, observed>>

\* The page calls component.setAttribute(name, v) on an attr field.
SetAttribute(i, name, v) ==
  /\ \E k \in 1 .. Len(cls.fields) : cls.fields[k].name = name /\ IsAttr(cls.fields[k])
  /\ ops < MaxOps
  /\ ops' = ops + 1
  /\ Apply(setAttribute(World, i, 0, name, v))
  /\ UNCHANGED <<cls, observed>>

\* `await this._getDefault(...)` of _initField returns.
DefaultResolved(i) ==
  /\ \E n \in Waiting(i, "default") :
       LET fr == comp[i].procs[n]
       IN Apply(InitFieldRest(Log(World, i, fr.f, "default.returned", fr.name, fr.val, Undefined),
                              i, fr, fr.val))
  /\ UNCHANGED <<cls, observed, ops>>

\* `await this._initField(field)` of _initialize returns.
FieldInitialized(i) ==
  /\ \E n \in Waiting(i, "inited") :
       LET fr == comp[i].procs[n] IN Apply(InitLoop(World, i, fr, fr.k + 1))
  /\ UNCHANGED <<cls, observed, ops>>

\* `await fetch(...)` of _getView returns a response.
FetchResolved(i) ==
  /\ \E n \in Waiting(i, "fetch") :
       Apply(Suspend(World, i, [comp[i].procs[n] EXCEPT !.pc = "text"]))
  /\ UNCHANGED <<cls, observed, ops>>

\* `await fetch(...)` of _getView throws.
FetchRejected(i) ==
  /\ \E n \in Waiting(i, "fetch") : Apply(GetViewCatch(World, i, comp[i].procs[n]))
  /\ UNCHANGED <<cls, observed, ops>>

\* `await resp.text()` of _getView returns the document.
TextResolved(i, html) ==
  /\ \E n \in Waiting(i, "text") : Apply(GetViewStore(World, i, comp[i].procs[n], html))
  /\ UNCHANGED <<cls, observed, ops>>

\* `await resp.text()` of _getView throws.
TextRejected(i) ==
  /\ \E n \in Waiting(i, "text") : Apply(GetViewCatch(World, i, comp[i].procs[n]))
  /\ UNCHANGED <<cls, observed, ops>>

\* `await this._getView()` of _renderView returns.
ViewReturned(i) ==
  /\ \E n \in Waiting(i, "view") :
       LET fr == comp[i].procs[n] IN Apply(InjectView(World, i, fr, fr.val))
  /\ UNCHANGED <<cls, observed, ops>>

\* `await this._renderFields()` of _renderView returns, or the
\* `await this._renderField(name)` of a setter.
FieldsRendered(i) ==
  /\ \E n \in Waiting(i, "render") :
       LET fr == comp[i].procs[n]
       IN Apply(IF fr.kind = "set" THEN SetRest(World, i, fr)
                ELSE RenderViewRest(World, i, fr))
  /\ UNCHANGED <<cls, observed, ops>>

\* `await this._initialize()` returns.
InitializeReturned(i) ==
  /\ \E n \in Waiting(i, "initialized") : Apply(InitializeRest(World, i, comp[i].procs[n]))
  /\ UNCHANGED <<cls, observed, ops>>

\* `await this.onConnected()` returns.
HookReturned(i) ==
  /\ \E n \in Waiting(i, "hook") : Apply(HookRest(World, i, comp[i].procs[n]))
  /\ UNCHANGED <<cls, observed, ops>>

\* `await this._onConnected(this)` returns.
CallbackReturned(i) ==
  /\ \E n \in Waiting(i, "cb") : Apply(Finish(World, i, comp[i].procs[n], "resolved"))
  /\ UNCHANGED <<cls, observed, ops>>

\* `await this[<name>_updated](...)` of a setter returns.
UpdatedReturned(i) ==
  /\ \E n \in Waiting(i, "updated") : Apply(SetDispatch(World, i, comp[i].procs[n]))
  /\ UNCHANGED <<cls, observed, ops>>

Init ==
  /\ cls \in Classes
  /\ observed = observedAttributes(cls.fields)
  /\ comp \in [{1} -> {NewComponent(x.defaults, x.cb, x.dom) : x \in CreationsOf(cls)}]
  /\ views = Undefined
  /\ listeners = {}
  /\ fetches = 0
  /\ ops = 0

Next ==
  \/ \E i \in DOMAIN comp : Connect(i)
  \/ \E i \in DOMAIN comp : Disconnect(i)
  \/ \E i \in DOMAIN comp : HotReplace(i)
  \/ \E i \in DOMAIN comp, name \in Names, v \in AssignValues : Assign(i, name, v)
  \/ \E i \in DOMAIN comp, v \in AttributeValues : SetAttribute(i, "a", v)
  \/ \E i \in DOMAIN comp : DefaultResolved(i)
  \/ \E i \in DOMAIN comp : FieldInitialized(i)
  \/ \E i \in DOMAIN comp : FetchResolved(i)
  \/ \E i \in DOMAIN comp : FetchRejected(i)
  \/ \E i \in DOMAIN comp, html \in Htmls : TextResolved(i, html)
  \/ \E i \in DOMAIN comp : TextRejected(i)
  \/ \E i \in DOMAIN comp : ViewReturned(i)
  \/ \E i \in DOMAIN comp : FieldsRendered(i)
  \/ \E i \in DOMAIN comp : InitializeReturned(i)
  \/ \E i \in DOMAIN comp : HookReturned(i)
  \/ \E i \in DOMAIN comp : CallbackReturned(i)
  \/ \E i \in DOMAIN comp : UpdatedReturned(i)

Spec == Init /\ [][Next]_vars

\* Two instances of one class with a view, created alike by the page, that
\* connect and disconnect.
PairCreation ==
  [defaults |-> NoDefaults, cb |-> TRUE, dom |-> [NoAttributes EXCEPT !["a"] = Str("x")]]

InitPair ==
  /\ cls \in {c \in Classes : ~c.noView}
  /\ observed = observedAttributes(cls.fields)
  /\ comp = [i \in Instances |->
               NewComponent(PairCreation.defaults, PairCreation.cb, PairCreation.dom)]
  /\ views = Undefined
  /\ listeners = {}
  /\ fetches = 0
  /\ ops = 0

NextPair ==
  \/ \E i \in DOMAIN comp : Connect(i)
  \/ \E i \in DOMAIN comp : Disconnect(i)
  \/ \E i \in DOMAIN comp : DefaultResolved(i)
  \/ \E i \in DOMAIN comp : FieldInitialized(i)
  \/ \E i \in DOMAIN comp : FetchResolved(i)
  \/ \E i \in DOMAIN comp : FetchRejected(i)
  \/ \E i \in DOMAIN comp, html \in Htmls : TextResolved(i, html)
  \/ \E i \in DOMAIN comp : TextRejected(i)
  \/ \E i \in DOMAIN comp : ViewReturned(i)
  \/ \E i \in DOMAIN comp : FieldsRendered(i)
  \/ \E i \in DOMAIN comp : InitializeReturned(i)
  \/ \E i \in DOMAIN comp : HookReturned(i)
  \/ \E i \in DOMAIN comp : CallbackReturned(i)

SpecPair == InitPair /\ [][NextPair]_vars

\* The declarations a class may make: every fields() of up to MaxFields
\* fields, of each kind or of none.
FieldLists ==
  UNION {[1 .. n -> {Field(name, kind, Plain(Undefined), FALSE) :
                       name \in Names, kind \in {"attr", "state", ""}}] :
           n \in 0 .. MaxFields}

InitDecl ==
  /\ cls \in {[fields |-> fs, noView |-> TRUE, methods |-> <<>>] : fs \in FieldLists}
  /\ observed = <<>>
  /\ comp = [i \in {1} |-> NewComponent(NoDefaults, FALSE, NoAttributes)]
  /\ views = Undefined
  /\ listeners = {}
  /\ fetches = 0
  /\ ops = 0

\* customElements.define(tag, Class) reads Class.observedAttributes, once.
Define ==
  /\ ops = 0
  /\ ops' = 1
  /\ observed' = observedAttributes(cls.fields)
  /\ UNCHANGED <<cls, comp, views, listeners, fetches>>

NextDecl == Define

SpecDecl == InitDecl /\ [][NextDecl]_vars

\* ---------------------------------------------------------- properties

Activations(i) == DOMAIN comp[i].trace \ {0}

Running(i, f) == \E n \in 1 .. Len(comp[i].procs) : comp[i].procs[n].f = f

PcOf(i, f) ==
  LET ps == comp[i].procs
  IN IF Running(i, f) THEN ps[CHOOSE n \in 1 .. Len(ps) : ps[n].f = f].pc ELSE "finished"

Has(t, e) == \E p \in 1 .. Len(t) : t[p].e = e

HasBefore(t, p, e, name) == \E q \in 1 .. p - 1 : t[q].e = e /\ t[q].name = name

IsConnect(t) == Len(t) >= 1 /\ t[1].e = "connectedCallback"

IsInit(t) == Len(t) >= 1 /\ t[1].e \in {"connectedCallback", "hotReplacedCallback"}

FieldIndex(name) == CHOOSE k \in 1 .. Len(cls.fields) : cls.fields[k].name = name

\* t[p] opens the initialisation of a required field that nothing supplies:
\* no constructor default, no attribute, a default that resolves to undefined.
RequiredMissing(i, t, p) ==
  /\ t[p].e = "initField"
  /\ LET field == FieldNamed(t[p].name)
     IN /\ field.required
        /\ comp[i].defaults[field.name] = Plain(Undefined)
        /\ IsAttr(field) => t[p].v = Null
        /\ field.default.v = Undefined

\* What an activation logs only once it renders, wires or calls back.
AfterFields == {"getView", "fetch", "innerHTML", "render", "rendered", "bind", "wire",
                "onConnected", "_onConnected", "resolved"}

\* C1: a required field that neither the constructor defaults, nor the DOM
\* attribute, nor its default supplies makes _initField throw: once the await
\* of the default has returned, the activation has rejected with the error,
\* the field is not initialised, and the activation never rendered the view,
\* wired a listener, or called onConnected or the constructor's callback.
C1_RequiredFieldThrows ==
  \A i \in DOMAIN comp : \A f \in Activations(i) :
    LET t == comp[i].trace[f]
    IN \A p \in 1 .. Len(t) :
         RequiredMissing(i, t, p) =>
           \/ /\ PcOf(i, f) = "default"
              /\ \A q \in p + 1 .. Len(t) : t[q].e = "default"
           \/ /\ t[Len(t)].e = "required"
              /\ "required" \in comp[i].errors
              /\ ~Running(i, f)
              /\ \A q \in p + 1 .. Len(t) : t[q].e \in {"default", "default.returned", "required"}
              /\ \A q \in 1 .. Len(t) : t[q].e \notin AfterFields

C1_Witness ==
  \E i \in DOMAIN comp : \E f \in Activations(i) :
    LET t == comp[i].trace[f]
    IN /\ IsConnect(t)
       /\ t[Len(t)].e = "required"
       /\ \E p \in 1 .. Len(t) : RequiredMissing(i, t, p)
       /\ comp[i].shadow.gen = 0
       /\ listeners = {}

\* C2: within one connectedCallback the awaited steps run strictly in
\* sequence: field k+1 is not touched (nor its default function called) before
\* field k is fully initialised, the view is not looked up or fetched before
\* the last field is initialised, the onConnected hook is not called before
\* the fields are rendered and the events wired, and the constructor's
\* callback is not called before the hook has returned.
C2_AwaitedInSequence ==
  \A i \in DOMAIN comp : \A f \in Activations(i) :
    LET t == comp[i].trace[f]
    IN IsConnect(t) =>
         \A p \in 1 .. Len(t) :
           /\ t[p].e \in {"initField", "default"} /\ FieldIndex(t[p].name) > 1
                => HasBefore(t, p, "inited", cls.fields[FieldIndex(t[p].name) - 1].name)
           /\ t[p].e \in {"getView", "fetch", "innerHTML"}
                => \A k \in 1 .. Len(cls.fields) : HasBefore(t, p, "inited", cls.fields[k].name)
           /\ t[p].e = "onConnected"
                => /\ HasBefore(t, p, "innerHTML", "")
                   /\ HasBefore(t, p, "rendered", "")
                   /\ HasBefore(t, p, "wire", "")
           /\ t[p].e = "_onConnected"
                => \E q \in 1 .. p - 1 :
                     /\ t[q].e = "onConnected.returned"
                     /\ HasBefore(t, q, "onConnected", "")

C2_Witness ==
  \E i \in DOMAIN comp : \E f \in Activations(i) :
    LET t == comp[i].trace[f]
    IN /\ IsConnect(t)
       /\ Len(cls.fields) = 2
       /\ Has(t, "default")
       /\ Has(t, "fetch")
       /\ Has(t, "_onConnected")
       /\ t[Len(t)].e = "resolved"

\* The connectedCallback activations, over all instances.
Connections ==
  {x \in UNION {{<<i, f>> : f \in Activations(i)} : i \in DOMAIN comp} :
     IsConnect(comp[x[1]].trace[x[2]])}

TraceOf(x) == comp[x[1]].trace[x[2]]

\* The texts activation x put into its shadow root after _getView gave one.
Injected(x) ==
  {TraceOf(x)[p].v : p \in {q \in 1 .. Len(TraceOf(x)) :
                              TraceOf(x)[q].e = "innerHTML" /\ TraceOf(x)[q].v # Undefined}}

\* C3: the view is fetched once per component type: over all connections of
\* the class's instances, overlapping or not, at most one fetch of the HTML
\* succeeds, and all instances inject the same text.
C3_ViewFetchedOnce ==
  /\ Cardinality({x \in Connections : Has(TraceOf(x), "fetched")}) <= 1
  /\ \A x, y \in Connections : \A u \in Injected(x), v \in Injected(y) : u = v

\* C4: a failed view fetch is only logged: the activation whose fetch (or
\* resp.text()) threw stores nothing in the cache, injects the text of
\* `undefined`, does not reject, and still renders the fields, wires the
\* events and calls onConnected and the constructor's callback; and whenever
\* _getView finds nothing in the cache it issues a fetch.
C4_FailedFetchOnlyLogged ==
  \A i \in DOMAIN comp : \A f \in Activations(i) :
    LET t == comp[i].trace[f]
    IN \A p \in 1 .. Len(t) :
         /\ t[p].e = "console.error" =>
              /\ ~Has(t, "fetched")
              /\ comp[i].errors \subseteq {"required", "redefine"}
              /\ IF p = Len(t)
                  THEN PcOf(i, f) = "view"
                  ELSE t[p + 1].e = "innerHTML" /\ t[p + 1].v = Undefined
              /\ ~Running(i, f) =>
                   /\ t[Len(t)].e = "resolved"
                   /\ Has(t, "rendered") /\ Has(t, "bind") /\ Has(t, "wire")
                   /\ IsConnect(t) => Has(t, "onConnected")
                   /\ IsConnect(t) /\ comp[i].cb => Has(t, "_onConnected")
         /\ t[p].e = "getView" /\ ~Truthy(t[p].v) =>
              p < Len(t) /\ t[p + 1].e = "fetch"

\* A connection whose fetch failed when it was the only one issued has
\* completed with nothing cached, and a later connection of the class has
\* issued the second fetch.
C4_Witness ==
  \E x, y \in Connections :
    /\ \E p \in 1 .. Len(TraceOf(x)) :
         TraceOf(x)[p].e = "console.error" /\ TraceOf(x)[p].v = 1
    /\ TraceOf(x)[Len(TraceOf(x))].e = "resolved"
    /\ \E p \in 1 .. Len(TraceOf(y)) :
         TraceOf(y)[p].e = "fetch" /\ TraceOf(y)[p].v = 2

\* What the accessor _initField defines returns: objs['_' + name].
Getter(c, name) == Objs(c, IsAttr(FieldNamed(name)))["_" \o name]

\* Instance i is connected, its latest initialisations have finished without
\* an error, and nothing of it is in flight.
Quiescent(i) ==
  /\ comp[i].inDoc
  /\ comp[i].procs = <<>>
  /\ comp[i].errors = {}
  /\ \E f \in Activations(i) :
       IsInit(comp[i].trace[f]) /\ comp[i].trace[f][Len(comp[i].trace[f])].e = "resolved"

\* C5: attr fields are synchronised with the DOM attributes: in every
\* quiescent state of a connected component, the property of each attr field
\* returns the value of the DOM attribute of the same name.
C5_AttrSynchronized ==
  \A i \in DOMAIN comp :
    Quiescent(i) =>
      \A k \in 1 .. Len(cls.fields) :
        IsAttr(cls.fields[k]) =>
          Getter(comp[i], cls.fields[k].name) = comp[i].dom[cls.fields[k].name]

\* C6: an assignment of a value other than the current one to an initialised
\* field's property stores it synchronously: right after the assignment the
\* getter returns the assigned value, and the assignment has started exactly
\* one run of the setter, which stored that value first.
C6_StoredOnAssign ==
  [][\A i \in DOMAIN comp, name \in Names, v \in AssignValues :
       Assign(i, name, v) /\ v # Getter(comp[i], name) =>
         /\ Getter(comp'[i], name) = v
         /\ comp'[i].nf = comp[i].nf + 1
         /\ comp'[i].trace[comp'[i].nf][1] =
              [e |-> "store", name |-> name, v |-> v, o |-> Getter(comp[i], name)]]_vars

\* The listeners instance i's class methods call for, as the DOM is now.
Wanted(i) ==
  UNION {{[target |-> t, event |-> Match(cls.methods[k]).event, prop |-> cls.methods[k]] :
            t \in Targets(i, comp[i], cls.methods[k])} :
           k \in {j \in 1 .. Len(cls.methods) : Match(cls.methods[j]).ok}}

\* Once connectedCallback has completed, each convention-named method is a
\* listener for its event on each element its target resolves to.
ConnectedBound ==
  \A i \in DOMAIN comp :
    Quiescent(i) =>
      \A x \in Wanted(i) :
        \E l \in listeners : l.target = x.target /\ l.event = x.event /\ l.fn.prop = x.prop

\* When disconnectedCallback returns, no function of the instance's methods
\* (bound to it, or the prototype's own) is a listener anywhere.
DisconnectUnbinds ==
  \A i \in DOMAIN comp :
    Disconnect(i) => \A l \in listeners' : l.fn.inst \notin {0, i}

\* C7: convention-named methods are bound on connect and unbound on
\* disconnect: after connectedCallback has completed every such method is
\* registered on the elements its target resolves to, and once
\* disconnectedCallback has returned none of them is registered on any
\* element, window, document or the component.
C7_BoundAndUnbound == []ConnectedBound /\ [][DisconnectUnbinds]_vars

\* C8: a component whose noView is true does not download a view: no
\* connection of it looks the cache up or fetches, the cache stays as it
\* was, and its shadow root holds nothing but the stylesheet link and what the
\* render_<name> functions built.
C8_NoViewNoFetch ==
  cls.noView =>
    /\ fetches = 0
    /\ views = Undefined
    /\ \A i \in DOMAIN comp :
         /\ \A f \in Activations(i) :
              \A p \in 1 .. Len(comp[i].trace[f]) :
                /\ comp[i].trace[f][p].e \notin {"getView", "fetch", "fetched", "console.error"}
                /\ comp[i].trace[f][p].e = "innerHTML" => comp[i].trace[f][p].v = Str("")
         /\ comp[i].shadow.html = ""
         /\ ShadowElems(comp[i]) = UNION {RenderedElems(n) : n \in comp[i].shadow.rendered}

\* A noView component with a render function has connected and rendered.
C8_Witness ==
  /\ cls.noView
  /\ \E i \in DOMAIN comp :
       /\ Quiescent(i)
       /\ comp[i].shadow.gen = 1
       /\ comp[i].shadow.rendered = {"s"}
       /\ ShadowElems(comp[i]) = RenderedElems("s")

\* The positions of the fields declared with kind attr.
AttrIndices(fs) == {k \in 1 .. Len(fs) : fs[k].kind = "attr"}

\* C9: observedAttributes returns exactly the names of the fields declared
\* with kind attr, in declaration order: its j-th name is the name of the
\* j-th such field; fields declared as state or without a kind add nothing.
C9_ObservedAreAttrFields ==
  ops = 1 =>
    /\ Len(observed) = Cardinality(AttrIndices(cls.fields))
    /\ \E g \in [1 .. Len(observed) -> AttrIndices(cls.fields)] :
         /\ \A j, k \in 1 .. Len(observed) : j < k => g[j] < g[k]
         /\ \A j \in 1 .. Len(observed) : observed[j] = cls.fields[g[j]].name

\* A class declaring an attr field, a field without a kind and another attr
\* field has been defined.
C9_Witness ==
  /\ ops = 1
  /\ Len(cls.fields) = 3
  /\ cls.fields[1].kind = "attr" /\ cls.fields[2].kind = "" /\ cls.fields[3].kind = "attr"
  /\ cls.fields[1].name # cls.fields[3].name
  /\ observed = <<cls.fields[1].name, cls.fields[3].name>>

\* C10: the lifecycle can repeat: for a class with at least one field, an
\* initialisation of an instance that follows a completed one (a second
\* connectedCallback, or a hotReplacedCallback) completes without throwing,
\* having initialised every field again, rendered the view and wired the
\* events.
C10_LifecycleRepeats ==
  \A i \in DOMAIN comp : \A f, g \in Activations(i) :
    LET t == comp[i].trace[f]
        u == comp[i].trace[g]
    IN /\ Len(cls.fields) >= 1
       /\ f < g
       /\ IsInit(t) /\ t[Len(t)].e = "resolved"
       /\ IsInit(u) /\ ~Running(i, g)
       => /\ u[Len(u)].e = "resolved"
          /\ \A k \in 1 .. Len(cls.fields) : Has(SelectSeq(u, LAMBDA x : x.name = cls.fields[k].name), "inited")
          /\ Has(u, "innerHTML") /\ Has(u, "rendered") /\ Has(u, "wire")

\* C11: assigning to an initialised field the very value it holds does
\* nothing: no value or attribute changes, no render, no re-wiring, no
\* <name>_updated and no dispatch (no run of the setter is started, and
\* nothing is logged).
C11_SameValueNoOp ==
  [][\A i \in DOMAIN comp, name \in Names, v \in AssignValues :
       Assign(i, name, v) /\ v = Getter(comp[i], name) =>
         UNCHANGED <<comp, views, listeners, fetches>>]_vars

\* What a run of the setter passes on is what it stored: the arguments of
\* <name>_updated and the details of both events carry the run's newValue
\* and oldValue.
DetailFromStore ==
  \A i \in DOMAIN comp : \A f \in Activations(i) :
    LET t == comp[i].trace[f]
    IN \A p \in 1 .. Len(t) :
         t[p].e \in {"updated", "dispatch"} =>
           t[1].e = "store" /\ t[p].v = t[1].v /\ t[p].o = t[1].o

\* An assignment that changes the field starts a run of the setter whose
\* newValue is the assigned value and whose oldValue is the value the field
\* held.
AssignReadsOld ==
  \A i \in DOMAIN comp, name \in Names, v \in AssignValues :
    Assign(i, name, v) /\ v # Getter(comp[i], name) =>
      /\ comp[i].nf + 1 \in DOMAIN comp'[i].trace
      /\ LET st == comp'[i].trace[comp[i].nf + 1][1]
         IN st.e = "store" /\ st.name = name /\ st.v = v /\ st.o = Getter(comp[i], name)

\* C12: for every assignment that changes a field, <name>_updated and the
\* events <name>_change and change get the value the field held before the
\* assignment as oldValue, and the assigned value as newValue.
C12_DetailOldAndNew == []DetailFromStore /\ [][AssignReadsOld]_vars

\* Nothing of instance i's own state moved: no value, no run of the setter,
\* no listener.
ComponentUntouched(i) ==
  /\ comp'[i]._attrs = comp[i]._attrs
  /\ comp'[i]._state = comp[i]._state
  /\ comp'[i].procs = comp[i].procs
  /\ comp'[i].nf = comp[i].nf
  /\ comp'[i].shadow = comp[i].shadow
  /\ listeners' = listeners

\* C13: an attribute change on an initialised attr field sets the field
\* through its setter when the new value differs (==) from the old attribute
\* value and from the value the field stores, and does nothing when it equals
\* either; on a field not yet initialised it leaves the component as it is.
C13_AttributeChanged ==
  [][\A i \in DOMAIN comp, v \in AttributeValues :
       SetAttribute(i, "a", v) =>
         IF "a" \notin comp[i].set_ THEN ComponentUntouched(i)
         ELSE IF LooseEq(comp[i].dom["a"], v) \/ LooseEq(Getter(comp[i], "a"), v)
           THEN ComponentUntouched(i)
         ELSE /\ Getter(comp'[i], "a") = v
              /\ comp'[i].nf = comp[i].nf + 1
              /\ comp'[i].trace[comp'[i].nf][1].e = "store"
              /\ comp'[i].trace[comp'[i].nf][1].v = v]_vars

\* The initialisation of a field that t[p] closes was opened by t[q].
OpenedAt(t, p) ==
  CHOOSE q \in 1 .. p - 1 :
    /\ t[q].e = "initField" /\ t[q].name = t[p].name
    /\ \A r \in q + 1 .. p - 1 : t[r].e # "initField"

\* The source the precedence picks for a field: the constructor's entry, the
\* attribute (attr being its value when _initField began, null when absent),
\* or the declared default.
Chosen(c, field, attr) ==
  IF c.defaults[field.name] # Plain(Undefined) THEN [from |-> "default", def |-> c.defaults[field.name]]
  ELSE IF IsAttr(field) /\ attr # Null THEN [from |-> "attribute", def |-> Plain(attr)]
  ELSE [from |-> "default", def |-> field.default]

\* C14: the initial value of a field is the constructor's entry for it when
\* that is not undefined, else the DOM attribute's value for an attr field
\* whose attribute is present, else the declared default; a default that is
\* a function is called and its awaited result is the value, any other
\* default is the value itself and nothing is called.
C14_InitialValuePrecedence ==
  \A i \in DOMAIN comp : \A f \in Activations(i) :
    LET t == comp[i].trace[f]
    IN \A p \in 1 .. Len(t) :
         t[p].e = "inited" =>
           LET q == OpenedAt(t, p)
               ch == Chosen(comp[i], FieldNamed(t[p].name), t[q].v)
           IN /\ t[p].v = ch.def.v
              /\ ch.def.fn <=> \E r \in q + 1 .. p - 1 : t[r].e = "default"

\* The method name follows the convention [global_]<target>_<event>_event.
Conventional(prop) == Len(prop) >= 3 /\ prop[Len(prop)] = "event"

Prefixed(prop) == Conventional(prop) /\ Len(prop) >= 4 /\ prop[1] = "global"

EventOf(prop) == prop[Len(prop) - 1]

TargetOf(prop) ==
  Join(SubSeq(prop, IF Prefixed(prop) THEN 2 ELSE 1, Len(prop) - 2))

\* Element e answers a lookup of x among elems: by id, or by class when no
\* element of elems has the id.
Answers(elems, e, x) ==
  /\ e \in elems
  /\ \/ e.id = x
     \/ e.class = x /\ \A d \in elems : d.id # x

\* target is what the convention resolves prop's target to, for instance i.
ResolvesTo(i, prop, target) ==
  /\ Conventional(prop)
  /\ CASE TargetOf(prop) = "window" -> target = Window
       [] TargetOf(prop) = "this" -> target = This(i)
       [] TargetOf(prop) = "document" -> target = Document
       [] OTHER ->
            IF Prefixed(prop)
              THEN \E e \in DocElems :
                     Answers(DocElems, e, TargetOf(prop)) /\ target = DocTarget(e)
            ELSE \E e \in ShadowElems(comp[i]) :
                   /\ Answers(ShadowElems(comp[i]), e, TargetOf(prop))
                   /\ target = [kind |-> "shadow", inst |-> i,
                                gen |-> comp[i].shadow.gen, el |-> e.el]

RenderedFields == {n \in {cls.fields[k].name : k \in 1 .. Len(cls.fields)} : HasMethod(Render(n))}

\* In an initialisation, bind and wire come after every render_<name> was
\* called and _renderFields has returned.
RenderedThenWired ==
  \A i \in DOMAIN comp : \A f \in Activations(i) :
    LET t == comp[i].trace[f]
    IN IsInit(t) =>
         \A p \in 1 .. Len(t) :
           t[p].e \in {"bind", "wire"} =>
             /\ HasBefore(t, p, "rendered", "")
             /\ \A n \in RenderedFields : HasBefore(t, p, "render", n)

\* The elements the render functions build are in instance i's shadow root
\* and carry the listeners of the methods that resolve to them.
RenderedAreWired(i) ==
  /\ RenderedFields \subseteq comp[i].shadow.rendered
  /\ \A n \in RenderedFields : \A e \in RenderedElems(n) :
       \A k \in 1 .. Len(cls.methods) :
         LET target == [kind |-> "shadow", inst |-> i,
                        gen |-> comp[i].shadow.gen, el |-> e.el]
         IN ResolvesTo(i, cls.methods[k], target) =>
              \E l \in listeners : l.target = target /\ l.fn.prop = cls.methods[k]

\* The step in which the _renderView of an initialisation binds and wires
\* leaves the rendered elements wired.
WiredWhenViewRendered ==
  \A i \in DOMAIN comp : \A f \in Activations(i) :
    /\ IsInit(comp[i].trace[f])
    /\ PcOf(i, f) = "render"
    /\ (PcOf(i, f))' = "initialized"
    => (RenderedAreWired(i))'

\* C16: when the view is rendered, the render function of every field has
\* completed before the events are bound and wired, so the elements the
\* render functions built are there when _wireEvents looks its targets up.
C16_RenderedBeforeWired == []RenderedThenWired /\ [][WiredWhenViewRendered]_vars

\* _renderView has returned for a class whose render_s builds the element
\* item_click_event resolves to, and the listener is on it.
C16_Witness ==
  \E i \in DOMAIN comp : \E f \in Activations(i) :
    /\ IsInit(comp[i].trace[f])
    /\ PcOf(i, f) = "initialized"
    /\ RenderedFields = {"s"}
    /\ \E l \in listeners :
         l.fn.prop = ItemClick /\ l.target.kind = "shadow" /\ l.target.el = "r_s"

\* C17: wiring is idempotent: whatever connections, assignments and hot
\* replacements happened, a convention-named method of an instance is
\* registered at most once for an event on a target (whether as the
\* prototype's function or as a function bound to the instance).
C17_RegisteredOnce ==
  \A l1, l2 \in listeners :
    /\ l1.target = l2.target
    /\ l1.event = l2.event
    /\ l1.fn.prop = l2.fn.prop
    /\ l1.fn.inst = l2.fn.inst \/ l1.fn.inst = 0 \/ l2.fn.inst = 0
    => l1 = l2

\* Where instance i's activations logged e for field name.
Logged(c, e, name) ==
  UNION {{<<f, p>> : p \in {q \in 1 .. Len(c.trace[f]) :
                              c.trace[f][q].e = e /\ c.trace[f][q].name = name}} :
           f \in DOMAIN c.trace}

\* C18: one assignment to an attr field makes one round of effects: the
\* setter's setAttribute re-enters attributeChangedCallback, which does not
\* run the setter body again; so the assignment starts at most one run of
\* the setter (the run that dispatches <name>_change and change once), stores
\* once and calls render_<name> at most once.
C18_OneRoundPerAssignment ==
  [][\A i \in DOMAIN comp, name \in Names, v \in AssignValues :
       Assign(i, name, v) /\ IsAttr(FieldNamed(name)) =>
         /\ Cardinality(DOMAIN comp'[i].trace \ DOMAIN comp[i].trace) <= 1
         /\ Cardinality(Logged(comp'[i], "store", name) \ Logged(comp[i], "store", name)) <= 1
         /\ Cardinality(Logged(comp'[i], "render", name) \ Logged(comp[i], "render", name)) <= 1]_vars

====
